---- MODULE Spec2Model ----
(***************************************************************************)
(* Model of the requirement graph of reqtraq (req.go): ingestion of        *)
(* requirement records and code references into the reqGraph map, the      *)
(* linking / status propagation done by reqGraph.Resolve, and the          *)
(* queries made on the resolved graph.                                     *)
(*                                                                         *)
(* A *Req is identified with the key under which the map holds it; the    *)
(* Parents and Children slices of pointers are sequences of keys.          *)
(* FileHash and Attributes are not read by any modelled operation and are  *)
(* left out of the node record.                                            *)
(***************************************************************************)
EXTENDS Integers, Sequences, FiniteSets, TLC

VARIABLES rg, pc, nfile, npos, lastAdd, resolveErr, passes, upd

vars == <<rg, pc, nfile, npos, lastAdd, resolveErr, passes, upd>>

----------------------------------------------------------------------------
(* Bounds of the model *)

MaxSize == 4        \* size of the repository, see Size
MaxPasses == 2      \* runs of the status propagation passes

----------------------------------------------------------------------------
(* RequirementLevel and RequirementStatus (iota constants) *)

SYSTEM == 0
HIGH == 1
LOW == 2
CODE == 3

NOT_STARTED == 0
STARTED == 1
COMPLETED == 2

ReqTypes == {"SYS", "SWH", "HWH", "SWL", "HWL"}

ReqTypeToReqLevel ==
  [t \in ReqTypes |->
     CASE t = "SYS" -> SYSTEM
       [] t \in {"SWH", "HWH"} -> HIGH
       [] OTHER -> LOW]

----------------------------------------------------------------------------
(* The repository under analysis: identifiers and files *)

ReqIDs == {"REQ-0-DDLN-SYS-001", "REQ-0-DDLN-SWH-001", "REQ-0-DDLN-SWL-001"}

\* lyx.Req.ReqType: the type field of the identifier
ReqType(id) ==
  CASE id = "REQ-0-DDLN-SYS-001" -> "SYS"
    [] id = "REQ-0-DDLN-SWH-001" -> "SWH"
    [] OTHER -> "SWL"

\* the documents define the requirements top-down: in this order
ReqOrder == <<"REQ-0-DDLN-SYS-001", "REQ-0-DDLN-SWH-001", "REQ-0-DDLN-SWL-001">>

\* identifiers that reLLRReference can capture from a code file
LLRIDs == {id \in ReqIDs : ReqType(id) = "SWL"}

\* the .lyx files under certdocPath, in the order filepath.Walk visits them
LyxFiles == <<"/repo/certdocs/a.lyx", "/repo/certdocs/b.lyx">>

\* the number of requirement records in each of them
LyxRecords == <<3, 1>>

CodeFiles == {"/repo/src/x.go"}

\* strings.TrimPrefix(path, git.RepoPath()) with git.RepoPath() = "/repo"
TrimRepoPath(path) ==
  CASE path = "/repo/certdocs/a.lyx" -> "/certdocs/a.lyx"
    [] path = "/repo/certdocs/b.lyx" -> "/certdocs/b.lyx"
    [] path = "/repo/src/x.go" -> "/src/x.go"
    [] OTHER -> path

\* relativePathToRepo(fileName, git.RepoPath()): the part after "/repo/"
relativePathToRepo(fileName) ==
  CASE fileName = "/repo/src/x.go" -> "src/x.go"
    [] OTHER -> ""

\* Req.Body is a sequence of words of its first line (the title)
DeletedBody == <<"DELETED", "requirement">>
LiveBody == <<"The", "requirement">>
Bodies == {DeletedBody, LiveBody}

----------------------------------------------------------------------------
(* Helpers on sequences *)

BoundedSeq(S, n) == UNION {[1..k -> S] : k \in 0..n}

Range(s) == {s[i] : i \in DOMAIN s}

Count(s, x) == Cardinality({i \in DOMAIN s : s[i] = x})

RECURSIVE SumOver(_, _)
SumOver(S, f) ==
  IF S = {} THEN 0
  ELSE LET x == CHOOSE y \in S : TRUE IN f[x] + SumOver(S \ {x}, f)

----------------------------------------------------------------------------
(* Req methods *)

\* Req.Title: the first line of the body
Title(r) == r.Body

\* Req.IsDeleted: the title starts with DELETED
IsDeleted(r) == Len(Title(r)) > 0 /\ Title(r)[1] = "DELETED"

----------------------------------------------------------------------------
(* Ingestion *)

NoErr == [msg |-> "", a |-> "", b |-> "", c |-> ""]

ErrAlreadyDefined(id, path, prior) ==
  [msg |-> "already defined in", a |-> id, b |-> path, c |-> prior]

\* no AddReq call has returned yet
NoAdd == [ID |-> "", path |-> "", err |-> NoErr]

\* the node AddReq builds from a record
NewReq(req, path) ==
  [ID |-> req.ID,
   Level |-> ReqTypeToReqLevel[ReqType(req.ID)],
   Path |-> TrimRepoPath(path),
   ParentIds |-> req.Parents,
   Parents |-> <<>>,
   Children |-> <<>>,
   Body |-> req.Body,
   Position |-> req.Position,
   Seen |-> FALSE,
   Status |-> NOT_STARTED]

\* AddReq storing the record before it reports the duplicate
AddReq_overwrite(g, req, path) ==
  IF req.ID \in DOMAIN g
  THEN [g |-> [g EXCEPT ![req.ID] = NewReq(req, path)],
        err |-> ErrAlreadyDefined(req.ID, path, g[req.ID].Path)]
  ELSE [g |-> [k \in DOMAIN g \cup {req.ID} |->
                 IF k = req.ID THEN NewReq(req, path) ELSE g[k]],
        err |-> NoErr]

\* reqGraph.AddReq: the graph after the call and the returned error
AddReq(g, req, path) ==
  IF req.ID \in DOMAIN g
  THEN [g |-> g, err |-> ErrAlreadyDefined(req.ID, path, g[req.ID].Path)]
  ELSE [g |-> [k \in DOMAIN g \cup {req.ID} |->
                 IF k = req.ID THEN NewReq(req, path) ELSE g[k]],
        err |-> NoErr]

\* reqGraph.AddCodeRefs
AddCodeRefs(g, id, fileName, reqIds) ==
  [k \in DOMAIN g \cup {fileName} |->
     IF k = fileName
     THEN [ID |-> id,
           Level |-> CODE,
           Path |-> fileName,
           ParentIds |-> reqIds,
           Parents |-> <<>>,
           Children |-> <<>>,
           Body |-> <<>>,
           Position |-> 0,
           Seen |-> FALSE,
           Status |-> NOT_STARTED]
     ELSE g[k]]

\* the records lyx.ParseReq can hand to ParseLyx: a requirement lists each
\* of its parents once
RawReqs ==
  [ID : ReqIDs,
   Parents : {p \in BoundedSeq(ReqIDs, Cardinality(ReqIDs)) :
                \A i, j \in DOMAIN p : i # j => p[i] # p[j]},
   Body : Bodies]

\* the size of a record: its declared parents, and one more if it is superseded
RecSize(parents, body) ==
  Len(parents) + (IF IsDeleted([Body |-> body]) THEN 1 ELSE 0)

\* the size of the repository held by graph g
Size(g) ==
  SumOver(DOMAIN g, [k \in DOMAIN g |-> RecSize(g[k].ParentIds, g[k].Body)])

\* one iteration of the loop of ParseLyx: record number npos of the current
\* file is handed to AddReq, whose error ParseLyx drops.  The documents define
\* the requirements in the order ReqOrder; any record may repeat an identifier.
ParseLyxReq ==
  /\ pc = "walkLyx"
  /\ nfile <= Len(LyxFiles)
  /\ npos < LyxRecords[nfile]
  /\ \E raw \in RawReqs :
       /\ \/ raw.ID \in DOMAIN rg
          \/ \E i \in DOMAIN ReqOrder :
               /\ raw.ID = ReqOrder[i]
               /\ \A j \in 1..(i - 1) : ReqOrder[j] \in DOMAIN rg
       /\ Size(rg) + RecSize(raw.Parents, raw.Body) <= MaxSize
       /\ LET r == [ID |-> raw.ID, Parents |-> raw.Parents,
                    Body |-> raw.Body, Position |-> npos]
              res == AddReq(rg, r, LyxFiles[nfile])
          IN /\ rg' = res.g
             /\ lastAdd' = [ID |-> r.ID, path |-> LyxFiles[nfile], err |-> res.err]
  /\ npos' = npos + 1
  /\ UNCHANGED <<pc, nfile, resolveErr, passes, upd>>

\* ParseLyx returns; the walk of certdocPath goes on to the next file
ParseLyxReturn ==
  /\ pc = "walkLyx"
  /\ nfile <= Len(LyxFiles)
  /\ nfile' = nfile + 1
  /\ npos' = 0
  /\ lastAdd' = NoAdd
  /\ UNCHANGED <<rg, pc, resolveErr, passes, upd>>

\* the walk of certdocPath is over; CreateReqGraph walks codePath
EndWalkLyx ==
  /\ pc = "walkLyx"
  /\ nfile > Len(LyxFiles)
  /\ pc' = "walkCode"
  /\ UNCHANGED <<rg, nfile, npos, lastAdd, resolveErr, passes, upd>>

\* parseCode on a code file: a file without @llr references adds no node
parseCode ==
  /\ pc = "walkCode"
  /\ \E fileName \in CodeFiles, refs \in BoundedSeq(LLRIDs, MaxSize) :
       /\ fileName \notin DOMAIN rg
       /\ Len(refs) > 0
       /\ Size(rg) + RecSize(refs, <<>>) <= MaxSize
       /\ rg' = AddCodeRefs(rg, relativePathToRepo(fileName), fileName, refs)
  /\ UNCHANGED <<pc, nfile, npos, lastAdd, resolveErr, passes, upd>>

EndWalkCode ==
  /\ pc = "walkCode"
  /\ pc' = "resolve"
  /\ UNCHANGED <<rg, nfile, npos, lastAdd, resolveErr, passes, upd>>

----------------------------------------------------------------------------
(* Req.resolveUp and Req.resolveDown *)

\* The recursions run on the goroutine stack and have no cycle guard: a call
\* on a node that is already on the call path repeats that path for ever, and
\* the Go runtime ends the process with a stack overflow.  ok = FALSE is that
\* outcome; stack is the set of nodes on the call path.

RECURSIVE resolveUp(_, _, _)
RECURSIVE resolveUpParents(_, _, _, _)

resolveUp(g, r, stack) ==
  IF r \in stack THEN [g |-> g, ok |-> FALSE]
  ELSE resolveUpParents([g EXCEPT ![r].Seen = TRUE], r, 1, stack \cup {r})

resolveUpParents(g, r, i, stack) ==
  IF i > Len(g[r].Parents) THEN [g |-> g, ok |-> TRUE]
  ELSE LET res == resolveUp(g, g[r].Parents[i], stack)
       IN IF ~res.ok THEN res ELSE resolveUpParents(res.g, r, i + 1, stack)

RECURSIVE resolveDown(_, _, _)
RECURSIVE resolveDownChildren(_, _, _, _)

\* resolveDown returning early on a node that a traversal has marked already
resolveDown_memo(g, r, stack) ==
  IF r \in stack THEN [g |-> g, ret |-> NOT_STARTED, ok |-> FALSE]
  ELSE LET g1 == [g EXCEPT ![r].Seen = TRUE, ![r].Status = COMPLETED]
       IN IF g[r].Seen THEN [g |-> g1, ret |-> COMPLETED, ok |-> TRUE]
          ELSE IF g1[r].Level # CODE /\ Len(g1[r].Children) = 0
          THEN [g |-> [g1 EXCEPT ![r].Status = NOT_STARTED],
                ret |-> NOT_STARTED, ok |-> TRUE]
          ELSE resolveDownChildren(g1, r, 1, stack \cup {r})

resolveDown(g, r, stack) ==
  IF r \in stack THEN [g |-> g, ret |-> NOT_STARTED, ok |-> FALSE]
  ELSE LET g1 == [g EXCEPT ![r].Seen = TRUE, ![r].Status = COMPLETED]
       IN IF g1[r].Level # CODE /\ Len(g1[r].Children) = 0
          THEN [g |-> [g1 EXCEPT ![r].Status = NOT_STARTED],
                ret |-> NOT_STARTED, ok |-> TRUE]
          ELSE resolveDownChildren(g1, r, 1, stack \cup {r})

resolveDownChildren(g, r, i, stack) ==
  IF i > Len(g[r].Children) THEN [g |-> g, ret |-> g[r].Status, ok |-> TRUE]
  ELSE LET res == resolveDown(g, g[r].Children[i], stack)
       IN IF ~res.ok THEN res
          ELSE resolveDownChildren(
                 IF res.ret # COMPLETED
                 THEN [res.g EXCEPT ![r].Status = STARTED]
                 ELSE res.g,
                 r, i + 1, stack)

----------------------------------------------------------------------------
(* sort.Sort(byPosition(...)) *)

\* byPosition.Less on two nodes of graph g
Less(g, x, y) == g[x].Position < g[y].Position

\* sort.Sort is not stable: any arrangement of s that Less puts in order
byPosition(g, s) ==
  {t \in [1..Len(s) -> Range(s)] :
     /\ \A x \in Range(s) : Count(t, x) = Count(s, x)
     /\ \A i, j \in 1..Len(s) : i < j => ~Less(g, t[j], t[i])}

----------------------------------------------------------------------------
(* reqGraph.Resolve *)

ErrNoParents(req) ==
  [msg |-> "has no parents", a |-> req.ID, b |-> req.Path, c |-> ""]

ErrInvalidParent(req, parentId, what) ==
  [msg |-> "Invalid parent of requirement", a |-> req.ID, b |-> parentId, c |-> what]

ErrInvalidReference(req, parentId, what) ==
  [msg |-> "Invalid reference in file", a |-> req.Path, b |-> parentId, c |-> what]

LinkError(req, parentId, what) ==
  IF req.Level # CODE
  THEN ErrInvalidParent(req, parentId, what)
  ELSE ErrInvalidReference(req, parentId, what)

\* the orders in which a range over the map can visit its keys
Orders(g) ==
  {o \in [1..Cardinality(DOMAIN g) -> DOMAIN g] :
     \A i, j \in DOMAIN o : i # j => o[i] # o[j]}

\* linkParents not entering the child of a superseded parent in its Children
RECURSIVE linkParents_oneway(_, _, _, _)
linkParents_oneway(g, errs, key, i) ==
  IF i > Len(g[key].ParentIds) THEN [g |-> g, errs |-> errs]
  ELSE LET parentId == g[key].ParentIds[i] IN
       IF parentId \in DOMAIN g
       THEN LET bad == IsDeleted(g[parentId]) /\ ~IsDeleted(g[key])
                e1 == IF bad
                      THEN Append(errs, LinkError(g[key], parentId, "is deleted"))
                      ELSE errs
                g1 == IF bad THEN g
                      ELSE [g EXCEPT ![parentId].Children = Append(@, key)]
                g2 == [g1 EXCEPT ![key].Parents = Append(@, parentId)]
            IN linkParents_oneway(g2, e1, key, i + 1)
       ELSE linkParents_oneway(
              g, Append(errs, LinkError(g[key], parentId, "does not exist")),
              key, i + 1)

\* the loop over req.ParentIds[i..] of the node under key
RECURSIVE linkParents(_, _, _, _)
linkParents(g, errs, key, i) ==
  IF i > Len(g[key].ParentIds) THEN [g |-> g, errs |-> errs]
  ELSE LET parentId == g[key].ParentIds[i] IN
       IF parentId \in DOMAIN g
       THEN LET e1 == IF IsDeleted(g[parentId]) /\ ~IsDeleted(g[key])
                      THEN Append(errs, LinkError(g[key], parentId, "is deleted"))
                      ELSE errs
                g1 == [g EXCEPT ![parentId].Children = Append(@, key)]
                g2 == [g1 EXCEPT ![key].Parents = Append(@, parentId)]
            IN linkParents(g2, e1, key, i + 1)
       ELSE linkParents(g, Append(errs, LinkError(g[key], parentId, "does not exist")),
                        key, i + 1)

\* the first loop of Resolve leaving at the first node that has an error
RECURSIVE linkAll_failfast(_, _, _, _)
linkAll_failfast(g, errs, order, n) ==
  IF n > Len(order) \/ errs # <<>> THEN [g |-> g, errs |-> errs]
  ELSE LET req == g[order[n]]
           e1 == IF Len(req.ParentIds) = 0 /\ req.Level # SYSTEM
                 THEN Append(errs, ErrNoParents(req))
                 ELSE errs
           res == linkParents(g, e1, order[n], 1)
       IN linkAll_failfast(res.g, res.errs, order, n + 1)

\* the first loop of Resolve, visiting the nodes order[n..]
RECURSIVE linkAll(_, _, _, _)
linkAll(g, errs, order, n) ==
  IF n > Len(order) THEN [g |-> g, errs |-> errs]
  ELSE LET req == g[order[n]]
           e1 == IF Len(req.ParentIds) = 0 /\ req.Level # SYSTEM
                 THEN Append(errs, ErrNoParents(req))
                 ELSE errs
           res == linkParents(g, e1, order[n], 1)
       IN linkAll(res.g, res.errs, order, n + 1)

\* the second loop of Resolve: resolveDown on the SYSTEM nodes of order[n..]
RECURSIVE resolveDownAll(_, _, _)
resolveDownAll(g, order, n) ==
  IF n > Len(order) THEN [g |-> g, ok |-> TRUE]
  ELSE IF g[order[n]].Level = SYSTEM
       THEN LET res == resolveDown(g, order[n], {})
            IN IF ~res.ok THEN [g |-> res.g, ok |-> FALSE]
               ELSE resolveDownAll(res.g, order, n + 1)
       ELSE resolveDownAll(g, order, n + 1)

\* the third loop of Resolve: the graphs it can leave when started on one of G
RECURSIVE sortAll(_, _)
sortAll(G, keys) ==
  IF keys = {} THEN G
  ELSE LET k == CHOOSE x \in keys : TRUE
       IN sortAll(UNION {{[h EXCEPT ![k].Parents = p, ![k].Children = c] :
                            p \in byPosition(h, h[k].Parents),
                            c \in byPosition(h, h[k].Children)} : h \in G},
                  keys \ {k})

\* the fourth loop of Resolve: resolveUp on the CODE nodes of order[n..], each
\* then taking the Position of its first parent (an index out of range panics)
RECURSIVE resolveUpAll(_, _, _)
resolveUpAll(g, order, n) ==
  IF n > Len(order) THEN [g |-> g, ok |-> TRUE]
  ELSE IF g[order[n]].Level = CODE
       THEN LET res == resolveUp(g, order[n], {})
            IN IF ~res.ok \/ Len(res.g[order[n]].Parents) = 0
               THEN [g |-> res.g, ok |-> FALSE]
               ELSE resolveUpAll(
                      [res.g EXCEPT ![order[n]].Position =
                                      res.g[res.g[order[n]].Parents[1]].Position],
                      order, n + 1)
       ELSE resolveUpAll(g, order, n + 1)

\* lines 419-435 of Resolve, the status propagation: the outcomes it can have
\* on graph g.  Each range over the map picks its own order; what the loops
\* compute does not depend on it, so one order stands for the three.
propagate(g, order) ==
  LET down == resolveDownAll(g, order, 1)
  IN IF ~down.ok THEN {[g |-> down.g, ok |-> FALSE]}
     ELSE {resolveUpAll(h, order, 1) : h \in sortAll({down.g}, DOMAIN down.g)}

\* Resolve going on to the status propagation whatever the first loop found
resolve_noskip(g, order) ==
  LET linked == linkAll(g, <<>>, order, 1)
  IN {[g |-> out.g, err |-> linked.errs, ok |-> out.ok] :
        out \in propagate(linked.g, order)}

\* reqGraph.Resolve visiting the map in the given order: the outcomes it can
\* have.  err is the returned error, ok = FALSE the death of the process.
resolve(g, order) ==
  LET linked == linkAll(g, <<>>, order, 1)
  IN IF linked.errs # <<>>
     THEN {[g |-> linked.g, err |-> linked.errs, ok |-> TRUE]}
     ELSE {[g |-> out.g, err |-> <<>>, ok |-> out.ok] :
             out \in propagate(linked.g, order)}

\* CreateReqGraph calls Resolve once both walks are over
Resolve ==
  /\ pc = "resolve"
  /\ \E order \in Orders(rg) :
       \E out \in resolve(rg, order) :
         /\ rg' = out.g
         /\ resolveErr' = out.err
         /\ pc' = IF ~out.ok THEN "crashed"
                  ELSE IF out.err # <<>> THEN "failed" ELSE "resolved"
         /\ passes' = IF out.ok /\ out.err = <<>> THEN 1 ELSE passes
  /\ UNCHANGED <<nfile, npos, lastAdd, upd>>

\* the status propagation of Resolve run once more on the resolved graph
RePropagate ==
  /\ pc = "resolved"
  /\ passes < MaxPasses
  /\ \E order \in Orders(rg) :
       \E out \in propagate(rg, order) :
         /\ rg' = out.g
         /\ pc' = IF out.ok THEN "resolved" ELSE "crashed"
  /\ passes' = passes + 1
  /\ UNCHANGED <<nfile, npos, lastAdd, resolveErr, upd>>

\* reqGraph.DanglingReqsByPosition: the slices it can return
DanglingReqsByPosition(g) ==
  LET unseen == {k \in DOMAIN g : ~g[k].Seen}
  IN {t \in [1..Cardinality(unseen) -> unseen] :
        /\ \A x \in unseen : \E i \in DOMAIN t : t[i] = x
        /\ \A i, j \in DOMAIN t : i < j => ~Less(g, t[j], t[i])}

----------------------------------------------------------------------------
(* reqGraph.UpdatePhabricatorTasks *)

\* Phabricator answers every call: FindTask finds the task of a requirement
\* when there is one, CreateTask creates it.  phab is the set of the
\* requirements that have a task; the value of a PHID is never looked at, so
\* reqIDToTaskPHID is the set of its keys.

\* reqGraph.OrdsByPosition: the slices it can return
OrdsByPosition(g) ==
  LET ords == {k \in DOMAIN g : g[k].Level = SYSTEM}
  IN {t \in [1..Cardinality(ords) -> ords] :
        /\ \A x \in ords : \E i \in DOMAIN t : t[i] = x
        /\ \A i, j \in DOMAIN t : i < j => ~Less(g, t[j], t[i])}

\* no call of UpdatePhabricatorTasks has returned yet
NoUpdate ==
  [err |-> NoErr, visited |-> <<>>, tasks |-> {}, filterIDs |-> {}, found |-> {}]

ErrNoTask(req, parentReq) ==
  [msg |-> "has no corresponding task", a |-> req.ID, b |-> parentReq.ID, c |-> ""]

\* the loop over currentReq.Parents[i..]: the index of the first parent that
\* has no entry in reqIDToTaskPHID, 0 when each has one
RECURSIVE missingParentTask(_, _, _, _)
missingParentTask(g, cur, i, tasks) ==
  IF i > Len(g[cur].Parents) THEN 0
  ELSE IF g[g[cur].Parents[i]].ID \notin tasks THEN i
       ELSE missingParentTask(g, cur, i + 1, tasks)

\* the loop over currentReq.Children[i..]: enqueued is keyed by the ID field
RECURSIVE enqueueChildren(_, _, _, _, _)
enqueueChildren(g, cur, i, queue, enqueued) ==
  IF i > Len(g[cur].Children) THEN [queue |-> queue, enqueued |-> enqueued]
  ELSE LET childReq == g[cur].Children[i]
       IN IF g[childReq].ID \in enqueued
          THEN enqueueChildren(g, cur, i + 1, queue, enqueued)
          ELSE enqueueChildren(g, cur, i + 1, Append(queue, childReq),
                               enqueued \cup {g[childReq].ID})

\* the traversal loop of UpdatePhabricatorTasks from the given queue: the
\* returned error, the nodes in the order they were dequeued, and the keys of
\* reqIDToTaskPHID when it returns
RECURSIVE traverse(_, _, _, _, _, _, _)
traverse(g, queue, enqueued, tasks, visited, filterIDs, phab) ==
  IF queue = <<>> THEN [err |-> NoErr, visited |-> visited, tasks |-> tasks]
  ELSE LET currentReq == Head(queue)
           rest == Tail(queue)
           seen1 == Append(visited, currentReq)
       IN IF g[currentReq].Level = CODE
          THEN traverse(g, rest, enqueued, tasks, seen1, filterIDs, phab)
          ELSE LET task == g[currentReq].ID \in phab
                   miss == IF g[currentReq].Level = SYSTEM THEN 0
                           ELSE missingParentTask(g, currentReq, 1, tasks)
               IN IF miss # 0
                  THEN [err |-> ErrNoTask(g[currentReq],
                                          g[g[currentReq].Parents[miss]]),
                        visited |-> seen1, tasks |-> tasks]
                  ELSE LET created == /\ g[currentReq].ID \in filterIDs
                                      /\ ~task
                                      /\ ~IsDeleted(g[currentReq])
                           tasks1 == IF created \/ task
                                     THEN tasks \cup {g[currentReq].ID}
                                     ELSE tasks
                           phab1 == IF created
                                    THEN phab \cup {g[currentReq].ID}
                                    ELSE phab
                           q == enqueueChildren(g, currentReq, 1, rest, enqueued)
                       IN traverse(g, q.queue, q.enqueued, tasks1, seen1,
                                   filterIDs, phab1)

\* UpdatePhabricatorTasks called on the resolved graph with any filter set,
\* Phabricator holding tasks for any of the requirements
UpdatePhabricatorTasks ==
  /\ pc = "resolved"
  /\ \E filterIDs \in SUBSET {k \in DOMAIN rg : rg[k].Level # CODE},
        phab \in SUBSET {k \in DOMAIN rg : rg[k].Level # CODE},
        queue \in OrdsByPosition(rg) :
       LET out == traverse(rg, queue, {}, {}, <<>>, filterIDs, phab)
       IN upd' = [err |-> out.err, visited |-> out.visited, tasks |-> out.tasks,
                  filterIDs |-> filterIDs, found |-> phab]
  /\ pc' = "updated"
  /\ UNCHANGED <<rg, nfile, npos, lastAdd, resolveErr, passes>>

----------------------------------------------------------------------------

Init ==
  /\ rg = <<>>
  /\ pc = "walkLyx"
  /\ nfile = 1
  /\ npos = 0
  /\ lastAdd = NoAdd
  /\ resolveErr = <<>>
  /\ passes = 0
  /\ upd = NoUpdate

Next ==
  \/ ParseLyxReq
  \/ ParseLyxReturn
  \/ EndWalkLyx
  \/ parseCode
  \/ EndWalkCode
  \/ Resolve
  \/ RePropagate

Spec == Init /\ [][Next]_vars

\* reqtraq synchronising the tasks: the graph is created, then
\* UpdatePhabricatorTasks runs on it
NextTasks ==
  \/ ParseLyxReq
  \/ ParseLyxReturn
  \/ EndWalkLyx
  \/ parseCode
  \/ EndWalkCode
  \/ Resolve
  \/ UpdatePhabricatorTasks

SpecTasks == Init /\ [][NextTasks]_vars

----------------------------------------------------------------------------
(* Properties *)

\* the keys of the requirement nodes and of the code nodes of the graph
ReqKeys == {k \in DOMAIN rg : rg[k].Level # CODE}
CodeKeys == {k \in DOMAIN rg : rg[k].Level = CODE}

\* C1: a record whose identifier is already in the graph makes AddReq return
\* the duplicate error, which names the identifier, the file being parsed and
\* the file of the first definition, and the graph keeps the node it had.
C1_DuplicateRejected ==
  [][(pc = "walkLyx" /\ npos' = npos + 1 /\ lastAdd'.ID \in DOMAIN rg) =>
       /\ lastAdd'.err.msg = "already defined in"
       /\ lastAdd'.err.a = lastAdd'.ID
       /\ lastAdd'.err.b = LyxFiles[nfile]
       /\ lastAdd'.err.c = rg[lastAdd'.ID].Path
       /\ lastAdd'.err.c \in {TrimRepoPath(LyxFiles[i]) : i \in 1..nfile}
       /\ rg' = rg]_vars

\* C1 witness: the second file repeats an identifier the first file defined
C1_Witness ==
  /\ lastAdd.err # NoErr
  /\ lastAdd.path = LyxFiles[2]
  /\ lastAdd.err.c = TrimRepoPath(LyxFiles[1])


\* the nodes that n reaches through one or more child links
RECURSIVE DescFrom(_, _)
DescFrom(S, seen) ==
  LET next == UNION {Range(rg[k].Children) : k \in S} \ seen
  IN IF next = {} THEN seen ELSE DescFrom(next, seen \cup next)

Descendants(n) == DescFrom({n}, {})

AllCompleted(s) == \A i \in DOMAIN s : rg[s[i]].Status = COMPLETED

\* C2: once Resolve has returned without error every node obeys the status
\* rule: a CODE node is COMPLETED, a childless requirement is NOT_STARTED, any
\* other node is COMPLETED when all its children are and STARTED when not; so
\* NOT_STARTED means a childless requirement, and below a COMPLETED node every
\* childless node is a CODE node.
C2_StatusRule ==
  pc = "resolved" =>
    \A n \in DOMAIN rg :
      /\ rg[n].Level = CODE => rg[n].Status = COMPLETED
      /\ rg[n].Level # CODE /\ rg[n].Children = <<>> => rg[n].Status = NOT_STARTED
      /\ rg[n].Level # CODE /\ rg[n].Children # <<>> =>
           rg[n].Status = (IF AllCompleted(rg[n].Children) THEN COMPLETED ELSE STARTED)
      /\ rg[n].Status = NOT_STARTED => rg[n].Level # CODE /\ rg[n].Children = <<>>
      /\ rg[n].Status = COMPLETED =>
           \A d \in Descendants(n) \cup {n} :
             rg[d].Children = <<>> => rg[d].Level = CODE

\* the requirements from which no chain of child links leads to a CODE node
NoPathToCode ==
  {n \in ReqKeys : \A d \in Descendants(n) : rg[d].Level # CODE}

\* C3: once Resolve has returned without error DanglingReqsByPosition returns
\* exactly the requirements from which no chain of child links leads to a CODE
\* node.
C3_DanglingAreUnconnected ==
  pc = "resolved" =>
    \A t \in DanglingReqsByPosition(rg) : Range(t) = NoPathToCode

\* the link defects of the ingested nodes, each with the error the linking
\* rules give it: <<node, 0>> is a node that must have parents and has none,
\* <<node, i>> its i-th declared parent
Defects ==
  {d \in (DOMAIN rg) \X (0..MaxSize) :
     LET n == rg[d[1]] IN
     IF d[2] = 0 THEN n.ParentIds = <<>> /\ n.Level # SYSTEM
     ELSE /\ d[2] <= Len(n.ParentIds)
          /\ \/ n.ParentIds[d[2]] \notin DOMAIN rg
             \/ /\ n.Body # <<>> => n.Body[1] # "DELETED"
                /\ rg[n.ParentIds[d[2]]].Body # <<>>
                /\ rg[n.ParentIds[d[2]]].Body[1] = "DELETED"}

DefectError(d) ==
  LET n == rg[d[1]] IN
  IF d[2] = 0
  THEN [msg |-> "has no parents", a |-> n.ID, b |-> n.Path, c |-> ""]
  ELSE [msg |-> IF n.Level = CODE THEN "Invalid reference in file"
                ELSE "Invalid parent of requirement",
        a |-> IF n.Level = CODE THEN n.Path ELSE n.ID,
        b |-> n.ParentIds[d[2]],
        c |-> IF n.ParentIds[d[2]] \in DOMAIN rg THEN "is deleted"
              ELSE "does not exist"]

\* C4: the error Resolve returns holds one message for every link defect and
\* nothing else: each message as often as there are defects it describes, and
\* no error when there is no defect.
C4_AllDefectsReported ==
  pc \in {"failed", "resolved"} =>
    /\ \A e \in Range(resolveErr) \cup {DefectError(d) : d \in Defects} :
         Count(resolveErr, e) = Cardinality({d \in Defects : DefectError(d) = e})
    /\ pc = "failed" <=> Defects # {}

\* C4 witness: Resolve has returned three messages of three kinds
C4_Witness ==
  /\ pc = "failed"
  /\ \E i, j, k \in DOMAIN resolveErr :
       /\ resolveErr[i].msg = "has no parents"
       /\ resolveErr[j].c = "does not exist"
       /\ resolveErr[k].c = "is deleted"

\* C5: a call of Resolve that finds a link error returns it and leaves the
\* Status, the Seen flag and the Position of every node as ingestion set them.
C5_ErrorSkipsPropagation ==
  [][(pc = "resolve" /\ (resolveErr' # <<>> \/ pc' = "failed")) =>
       /\ pc' = "failed"
       /\ resolveErr' # <<>>
       /\ DOMAIN rg' = DOMAIN rg
       /\ \A k \in DOMAIN rg :
            /\ rg'[k].Status = rg[k].Status
            /\ rg'[k].Seen = rg[k].Seen
            /\ rg'[k].Position = rg[k].Position
            /\ rg'[k].Status = NOT_STARTED
            /\ ~rg'[k].Seen]_vars

\* C5 witness: Resolve has failed on a graph in which it made links and
\* which has a SYSTEM node and a CODE node
C5_Witness ==
  /\ pc = "failed"
  /\ \E s \in ReqKeys : rg[s].Level = SYSTEM /\ rg[s].Children # <<>>
  /\ \E c \in CodeKeys : rg[c].Parents # <<>>

Sorted(s) == \A i, j \in DOMAIN s : i < j => rg[s[i]].Position <= rg[s[j]].Position

\* C6: once Resolve has returned without error the Parents and the Children
\* of every node are in non-decreasing order of the Position the nodes then
\* have.
C6_SortedByFinalPosition ==
  pc = "resolved" /\ passes = 1 =>
    \A n \in DOMAIN rg : Sorted(rg[n].Parents) /\ Sorted(rg[n].Children)

\* C7: at all times b is in the Parents of a as often as a is in the Children
\* of b.
C7_LinksSymmetric ==
  \A a, b \in DOMAIN rg : Count(rg[a].Parents, b) = Count(rg[b].Children, a)

\* C7 witness: Resolve has linked a node twice to the same parent, and to a
\* superseded parent
C7_Witness ==
  /\ pc \in {"failed", "resolved"}
  /\ \E a, b \in DOMAIN rg : Count(rg[a].Parents, b) = 2
  /\ \E a, b \in DOMAIN rg :
       /\ Count(rg[a].Parents, b) > 0
       /\ IsDeleted(rg[b])
       /\ ~IsDeleted(rg[a])

\* C8: when Resolve reports no error every parent link leads to a node of a
\* strictly higher level, and Resolve returns.
C8_ParentsStrictlyHigher ==
  pc \in {"resolved", "crashed"} =>
    /\ pc # "crashed"
    /\ \A n \in DOMAIN rg : \A i \in DOMAIN rg[n].Parents :
         rg[rg[n].Parents[i]].Level < rg[n].Level

\* C9: running the status propagation again on a resolved graph leaves the
\* Status and the Seen flag of every node as they were.
C9_PropagationIdempotent ==
  [][(pc = "resolved" /\ passes' = passes + 1) =>
       /\ pc' = "resolved"
       /\ \A k \in DOMAIN rg :
            /\ rg'[k].Status = rg[k].Status
            /\ rg'[k].Seen = rg[k].Seen]_vars

\* C9 witness: the propagation has run twice on a graph in which a SYSTEM
\* node reaches a node n along two paths, directly and through another child,
\* and in which a node is STARTED
C9_Witness ==
  /\ pc = "resolved"
  /\ passes = 2
  /\ \E n, p, s \in DOMAIN rg :
       /\ p # s /\ n # p /\ n # s
       /\ p \in Range(rg[n].Parents) /\ s \in Range(rg[n].Parents)
       /\ s \in Range(rg[p].Parents)
       /\ rg[s].Level = SYSTEM
  /\ \E n \in DOMAIN rg : rg[n].Status = STARTED

\* C10: Resolve links a node to a declared parent only when the parent exists
\* and is not a superseded parent of a live node.
C10_NoLinkOnError ==
  pc \in {"failed", "resolved"} =>
    \A n \in DOMAIN rg : \A i \in DOMAIN rg[n].ParentIds :
      LET p == rg[n].ParentIds[i] IN
      (p \notin DOMAIN rg \/ (IsDeleted(rg[p]) /\ ~IsDeleted(rg[n]))) =>
        /\ Count(rg[n].Parents, p) = 0
        /\ p \in DOMAIN rg => Count(rg[p].Children, n) = 0

\* C11: the traversal of UpdatePhabricatorTasks reaches every HIGH or LOW
\* requirement after all its parents, each of which then has a task recorded:
\* the call never returns the error "has no corresponding task", and no node
\* is dequeued twice.
C11_ParentsHaveTasks ==
  pc = "updated" =>
    /\ upd.err.msg # "has no corresponding task"
    /\ \A i \in DOMAIN upd.visited :
         rg[upd.visited[i]].Level \in {HIGH, LOW} =>
           \A p \in Range(rg[upd.visited[i]].Parents) :
             /\ rg[p].ID \in upd.tasks
             /\ \E j \in 1..(i - 1) : upd.visited[j] = p
    /\ \A i, j \in DOMAIN upd.visited : i # j => upd.visited[i] # upd.visited[j]

====
